---- MODULE Spec2Model ----
(***************************************************************************)
(* luWidget tray / window lifecycle coordinator (src-tauri/src/main.rs).   *)
(*                                                                         *)
(* The model has three groups of state:                                    *)
(*   - the auto-launch registrar behind its Mutex, the OS "run at login"   *)
(*     registration and the tray menu's check item;                        *)
(*   - the window registry entry for the label "notification" and the      *)
(*     show_notification / close_notification commands;                    *)
(*   - the main window's visibility and focus, driven by tray clicks.      *)
(* Every platform call whose Result the code inspects or discards          *)
(* (`let _ = ...`, `.ok()`, `unwrap_or`, `?`) may succeed or fail.         *)
(***************************************************************************)
EXTENDS Integers, Sequences, FiniteSets, TLC

VARIABLES
    running,      \* the process has not exited
    exitCode,     \* <<>> while running, <<code>> after app.exit(code)
    registrar,    \* AutoLaunchState holds Some(auto_launch)
    osEnabled,    \* the OS autostart registration (source of truth)
    checkbox,     \* checked state of the menu item "toggle_autostart"
    lock,         \* holder of the Mutex of AutoLaunchState, or "none"
    tpc,          \* position of each toggle caller
    tRead,        \* the local is_enabled of each toggle caller
    tResult,      \* the Result<bool, String> of each caller's last toggle
    notif,        \* registry windows with label "notification"
    spc,          \* position of each show_notification worker
    sMsg,         \* the message argument of each worker's call
    sId,          \* the request number of each worker's call
    sHandle,      \* the window a worker got from get_webview_window
    sResult,      \* the Result<(), String> of each worker's last call
    nextSeq,      \* number of the next show_notification request
    mainExists,   \* a window with label "main" is in the registry
    mainVisible,  \* the main window is visible
    mainFocused,  \* the main window has input focus
    tPre,         \* history: OS registration when the caller took the lock
    tQok,         \* history: the caller's is_enabled query succeeded
    tlog,         \* history: the last two toggles, in the order of the lock
    sOpen,        \* history: a window was open when the worker's call was issued
    sAlone,       \* history: no other notification command acted meanwhile
    sCloseOk,     \* history: the worker's best-effort close did not fail
    lastOp        \* history: the last step taken and its outcome

toggleVars == <<registrar, osEnabled, checkbox, lock, tpc, tRead, tResult,
                tPre, tQok, tlog>>
notifVars  == <<notif, spc, sMsg, sId, sHandle, sResult, nextSeq,
                sOpen, sAlone, sCloseOk>>
mainVars   == <<mainExists, mainVisible, mainFocused>>
exitVars   == <<running, exitCode>>
vars       == <<exitVars, toggleVars, notifVars, mainVars, lastOp>>

----------------------------------------------------------------------------
(* Bounds *)

MaxShows == 3     \* show_notification requests issued in one behaviour

(* Program constants *)

ExitStatus == 0   \* app.exit(0)

Callers  == {"menu", "ui"}
Workers  == {"w1", "w2"}
MenuIds  == {"toggle_autostart", "quit", "other"}
Buttons  == {"Left", "Right"}
ButtonStates == {"Up", "Down"}
QUOTE    == "\""
BSLASH   == "\\"
Messages == { <<"h", "i">>, <<BSLASH, QUOTE>> }

NotInitialized == "AutoLaunch not initialized"
OsError        == "os error"
BuildError     == "window build error"

NoResult == [tag |-> "None"]
Ok(v)    == [tag |-> "Ok", val |-> v]
Err(m)   == [tag |-> "Err", msg |-> m]
IsOk(r)  == r.tag = "Ok"
IsErr(r) == r.tag = "Err"
Unit     == "()"

Other(c) == CHOOSE d \in Callers : d # c

----------------------------------------------------------------------------
(* serde_json::to_string(&message) and the script's evaluation of it. *)

RECURSIVE EscapeJson(_)
EscapeJson(s) ==
    IF s = <<>> THEN <<>>
    ELSE (IF Head(s) \in {QUOTE, BSLASH} THEN <<BSLASH, Head(s)>> ELSE <<Head(s)>>)
         \o EscapeJson(Tail(s))

to_string(s) == <<QUOTE>> \o EscapeJson(s) \o <<QUOTE>>

RECURSIVE UnescapeJs(_)
UnescapeJs(s) ==
    IF s = <<>> THEN <<>>
    ELSE IF Head(s) = BSLASH /\ Len(s) > 1
         THEN <<s[2]>> \o UnescapeJs(Tail(Tail(s)))
         ELSE <<Head(s)>> \o UnescapeJs(Tail(s))

\* value of the string literal `lit` assigned to window.__NOTIFICATION_MESSAGE__
JsStringValue(lit) == UnescapeJs(SubSeq(lit, 2, Len(lit) - 1))

----------------------------------------------------------------------------
\* mutant: the check item is created unchecked whatever the registration is
Init_unchecked ==
    /\ running = TRUE
    /\ exitCode = <<>>
    /\ registrar \in BOOLEAN
    /\ osEnabled \in BOOLEAN
    /\ \E queryOk \in BOOLEAN :
          /\ checkbox = FALSE
          /\ lastOp = <<"setup", IF ~registrar THEN "absent"
                                 ELSE IF queryOk THEN "query_ok"
                                 ELSE "query_failed">>
    /\ lock = "none"
    /\ tpc = [c \in Callers |-> "idle"]
    /\ tRead = [c \in Callers |-> FALSE]
    /\ tResult = [c \in Callers |-> NoResult]
    /\ notif = {}
    /\ spc = [w \in Workers |-> "idle"]
    /\ sMsg = [w \in Workers |-> <<>>]
    /\ sId = [w \in Workers |-> 0]
    /\ sHandle = [w \in Workers |-> 0]
    /\ sResult = [w \in Workers |-> NoResult]
    /\ nextSeq = 1
    /\ mainExists \in BOOLEAN
    /\ mainVisible \in BOOLEAN
    /\ mainFocused \in {f \in BOOLEAN : f => (mainExists /\ mainVisible)}
    /\ tPre = [c \in Callers |-> FALSE]
    /\ tQok = [c \in Callers |-> FALSE]
    /\ tlog = <<>>
    /\ sOpen = [w \in Workers |-> FALSE]
    /\ sAlone = [w \in Workers |-> TRUE]
    /\ sCloseOk = [w \in Workers |-> TRUE]

\* the state main's setup leaves: registrar built or absent, the check item
\* created from the registration read at that moment
Init ==
    /\ running = TRUE
    /\ exitCode = <<>>
    /\ registrar \in BOOLEAN
    /\ osEnabled \in BOOLEAN
    /\ \E queryOk \in BOOLEAN :
          /\ checkbox = (registrar /\ queryOk /\ osEnabled)
          /\ lastOp = <<"setup", IF ~registrar THEN "absent"
                                 ELSE IF queryOk THEN "query_ok"
                                 ELSE "query_failed">>
    /\ lock = "none"
    /\ tpc = [c \in Callers |-> "idle"]
    /\ tRead = [c \in Callers |-> FALSE]
    /\ tResult = [c \in Callers |-> NoResult]
    /\ notif = {}
    /\ spc = [w \in Workers |-> "idle"]
    /\ sMsg = [w \in Workers |-> <<>>]
    /\ sId = [w \in Workers |-> 0]
    /\ sHandle = [w \in Workers |-> 0]
    /\ sResult = [w \in Workers |-> NoResult]
    /\ nextSeq = 1
    /\ mainExists \in BOOLEAN
    /\ mainVisible \in BOOLEAN
    /\ mainFocused \in {f \in BOOLEAN : f => (mainExists /\ mainVisible)}
    /\ tPre = [c \in Callers |-> FALSE]
    /\ tQok = [c \in Callers |-> FALSE]
    /\ tlog = <<>>
    /\ sOpen = [w \in Workers |-> FALSE]
    /\ sAlone = [w \in Workers |-> TRUE]
    /\ sCloseOk = [w \in Workers |-> TRUE]

----------------------------------------------------------------------------
(* app.exit(0) *)

Exit(code) ==
    /\ running' = FALSE
    /\ exitCode' = <<code>>

\* mutant: exit waits until no toggle holds the registrar lock
exit_app_waits ==
    /\ running
    /\ lock = "none"
    /\ Exit(ExitStatus)
    /\ lastOp' = <<"exit_app">>
    /\ UNCHANGED <<toggleVars, notifVars, mainVars>>

\* #[tauri::command] fn exit_app
exit_app ==
    /\ running
    /\ Exit(ExitStatus)
    /\ lastOp' = <<"exit_app">>
    /\ UNCHANGED <<toggleVars, notifVars, mainVars>>

----------------------------------------------------------------------------
(* toggle_auto_launch, one step per statement that can interleave with   *)
(* the other caller: lock, inspect + is_enabled, enable/disable, return. *)

\* tlog keeps the last two toggles: the latest and the one before it
Remember(log, r) ==
    IF log = <<>> THEN <<r>> ELSE <<log[Len(log)], r>>

\* mutant: the registrar is read without waiting for the mutex
toggle_auto_launch_lock_free(c) ==
    /\ running
    /\ tpc[c] = "lock"
    /\ lock' = c
    /\ tpc' = [tpc EXCEPT ![c] = "held"]
    /\ tPre' = [tPre EXCEPT ![c] = osEnabled]
    /\ lastOp' = <<"toggle_auto_launch_lock", c>>
    /\ UNCHANGED <<registrar, osEnabled, checkbox, tRead, tResult, tQok, tlog>>
    /\ UNCHANGED <<exitVars, notifVars, mainVars>>

\* state.0.lock().unwrap()
toggle_auto_launch_lock(c) ==
    /\ running
    /\ tpc[c] = "lock"
    /\ lock = "none"
    /\ lock' = c
    /\ tpc' = [tpc EXCEPT ![c] = "held"]
    /\ tPre' = [tPre EXCEPT ![c] = osEnabled]
    /\ lastOp' = <<"toggle_auto_launch_lock", c>>
    /\ UNCHANGED <<registrar, osEnabled, checkbox, tRead, tResult, tQok, tlog>>
    /\ UNCHANGED <<exitVars, notifVars, mainVars>>

\* mutant: a failed query counts as "enabled": is_enabled().unwrap_or(true)
toggle_auto_launch_is_enabled_or_true(c) ==
    /\ running
    /\ tpc[c] = "held"
    /\ IF registrar
       THEN \E queryOk \in BOOLEAN :
              /\ tRead' = [tRead EXCEPT ![c] = IF queryOk THEN osEnabled ELSE TRUE]
              /\ tQok' = [tQok EXCEPT ![c] = queryOk]
              /\ tpc' = [tpc EXCEPT ![c] = "queried"]
              /\ UNCHANGED tResult
       ELSE /\ tResult' = [tResult EXCEPT ![c] = Err(NotInitialized)]
            /\ tpc' = [tpc EXCEPT ![c] = "unlock"]
            /\ UNCHANGED <<tRead, tQok>>
    /\ lastOp' = <<"toggle_auto_launch_is_enabled", c>>
    /\ UNCHANGED <<registrar, osEnabled, checkbox, lock, tPre, tlog>>
    /\ UNCHANGED <<exitVars, notifVars, mainVars>>

\* mutant: an absent registrar is treated as "disabled": Ok(false)
toggle_auto_launch_is_enabled_default(c) ==
    /\ running
    /\ tpc[c] = "held"
    /\ IF registrar
       THEN \E queryOk \in BOOLEAN :
              /\ tRead' = [tRead EXCEPT ![c] = IF queryOk THEN osEnabled ELSE FALSE]
              /\ tQok' = [tQok EXCEPT ![c] = queryOk]
              /\ tpc' = [tpc EXCEPT ![c] = "queried"]
              /\ UNCHANGED tResult
       ELSE /\ tResult' = [tResult EXCEPT ![c] = Ok(FALSE)]
            /\ tpc' = [tpc EXCEPT ![c] = "unlock"]
            /\ UNCHANGED <<tRead, tQok>>
    /\ lastOp' = <<"toggle_auto_launch_is_enabled", c>>
    /\ UNCHANGED <<registrar, osEnabled, checkbox, lock, tPre, tlog>>
    /\ UNCHANGED <<exitVars, notifVars, mainVars>>

\* if let Some(auto_launch) = ... { is_enabled().unwrap_or(false) } else { Err }
toggle_auto_launch_is_enabled(c) ==
    /\ running
    /\ tpc[c] = "held"
    /\ IF registrar
       THEN \E queryOk \in BOOLEAN :
              /\ tRead' = [tRead EXCEPT ![c] = IF queryOk THEN osEnabled ELSE FALSE]
              /\ tQok' = [tQok EXCEPT ![c] = queryOk]
              /\ tpc' = [tpc EXCEPT ![c] = "queried"]
              /\ UNCHANGED tResult
       ELSE /\ tResult' = [tResult EXCEPT ![c] = Err(NotInitialized)]
            /\ tpc' = [tpc EXCEPT ![c] = "unlock"]
            /\ UNCHANGED <<tRead, tQok>>
    /\ lastOp' = <<"toggle_auto_launch_is_enabled", c>>
    /\ UNCHANGED <<registrar, osEnabled, checkbox, lock, tPre, tlog>>
    /\ UNCHANGED <<exitVars, notifVars, mainVars>>

\* mutant: the state that was read is returned, not the new one
toggle_auto_launch_flip_stale(c) ==
    /\ running
    /\ tpc[c] = "queried"
    /\ \E callOk \in BOOLEAN :
          IF callOk
          THEN /\ osEnabled' = ~tRead[c]
               /\ tResult' = [tResult EXCEPT ![c] = Ok(tRead[c])]
          ELSE /\ osEnabled' = osEnabled
               /\ tResult' = [tResult EXCEPT ![c] = Err(OsError)]
    /\ tpc' = [tpc EXCEPT ![c] = "unlock"]
    /\ lastOp' = <<"toggle_auto_launch_flip", c>>
    /\ UNCHANGED <<registrar, checkbox, lock, tRead, tPre, tQok, tlog>>
    /\ UNCHANGED <<exitVars, notifVars, mainVars>>

\* mutant: the registration is flipped before the OS call's error is returned
toggle_auto_launch_flip_partial(c) ==
    /\ running
    /\ tpc[c] = "queried"
    /\ \E callOk \in BOOLEAN :
          /\ osEnabled' = ~tRead[c]
          /\ tResult' = [tResult EXCEPT ![c] =
                            IF callOk THEN Ok(~tRead[c]) ELSE Err(OsError)]
    /\ tpc' = [tpc EXCEPT ![c] = "unlock"]
    /\ lastOp' = <<"toggle_auto_launch_flip", c>>
    /\ UNCHANGED <<registrar, checkbox, lock, tRead, tPre, tQok, tlog>>
    /\ UNCHANGED <<exitVars, notifVars, mainVars>>

\* if is_enabled { disable()?; Ok(false) } else { enable()?; Ok(true) }
toggle_auto_launch_flip(c) ==
    /\ running
    /\ tpc[c] = "queried"
    /\ \E callOk \in BOOLEAN :
          IF callOk
          THEN /\ osEnabled' = ~tRead[c]
               /\ tResult' = [tResult EXCEPT ![c] = Ok(~tRead[c])]
          ELSE /\ osEnabled' = osEnabled
               /\ tResult' = [tResult EXCEPT ![c] = Err(OsError)]
    /\ tpc' = [tpc EXCEPT ![c] = "unlock"]
    /\ lastOp' = <<"toggle_auto_launch_flip", c>>
    /\ UNCHANGED <<registrar, checkbox, lock, tRead, tPre, tQok, tlog>>
    /\ UNCHANGED <<exitVars, notifVars, mainVars>>

\* mutant: the menu handler's guard lives until the check item is updated
toggle_auto_launch_return_holding(c) ==
    /\ running
    /\ tpc[c] = "unlock"
    /\ lock' = IF c = "menu" THEN lock ELSE "none"
    /\ tpc' = [tpc EXCEPT ![c] = IF c = "menu" THEN "update" ELSE "idle"]
    /\ tRead' = [tRead EXCEPT ![c] = FALSE]
    /\ tQok' = [tQok EXCEPT ![c] = FALSE]
    /\ tPre' = [tPre EXCEPT ![c] = FALSE]
    /\ tlog' = Remember(tlog, [caller |-> c,
                               qok    |-> registrar /\ tQok[c],
                               read   |-> tRead[c],
                               res    |-> tResult[c],
                               post   |-> osEnabled,
                               conc   |-> tpc[Other(c)] = "lock"])
    /\ lastOp' = <<"toggle_auto_launch_return", c>>
    /\ UNCHANGED <<registrar, osEnabled, checkbox, tResult>>
    /\ UNCHANGED <<exitVars, notifVars, mainVars>>

\* mutant: the guard is leaked on the error paths
toggle_auto_launch_return_leak(c) ==
    /\ running
    /\ tpc[c] = "unlock"
    /\ lock' = IF IsErr(tResult[c]) THEN lock ELSE "none"
    /\ tpc' = [tpc EXCEPT ![c] = IF c = "menu" THEN "update" ELSE "idle"]
    /\ tRead' = [tRead EXCEPT ![c] = FALSE]
    /\ tQok' = [tQok EXCEPT ![c] = FALSE]
    /\ tPre' = [tPre EXCEPT ![c] = FALSE]
    /\ tlog' = Remember(tlog, [caller |-> c,
                               qok    |-> registrar /\ tQok[c],
                               read   |-> tRead[c],
                               res    |-> tResult[c],
                               post   |-> osEnabled,
                               conc   |-> tpc[Other(c)] = "lock"])
    /\ lastOp' = <<"toggle_auto_launch_return", c>>
    /\ UNCHANGED <<registrar, osEnabled, checkbox, tResult>>
    /\ UNCHANGED <<exitVars, notifVars, mainVars>>

\* the function returns: the MutexGuard and the locals are dropped, the
\* caller has the Result
toggle_auto_launch_return(c) ==
    /\ running
    /\ tpc[c] = "unlock"
    /\ lock' = "none"
    /\ tpc' = [tpc EXCEPT ![c] = IF c = "menu" THEN "update" ELSE "idle"]
    /\ tRead' = [tRead EXCEPT ![c] = FALSE]
    /\ tQok' = [tQok EXCEPT ![c] = FALSE]
    /\ tPre' = [tPre EXCEPT ![c] = FALSE]
    /\ tlog' = Remember(tlog, [caller |-> c,
                               qok    |-> registrar /\ tQok[c],
                               read   |-> tRead[c],
                               res    |-> tResult[c],
                               post   |-> osEnabled,
                               conc   |-> tpc[Other(c)] = "lock"])
    /\ lastOp' = <<"toggle_auto_launch_return", c>>
    /\ UNCHANGED <<registrar, osEnabled, checkbox, tResult>>
    /\ UNCHANGED <<exitVars, notifVars, mainVars>>

\* the UI layer invokes the command toggle_auto_launch
invoke_toggle_auto_launch ==
    /\ running
    /\ tpc["ui"] = "idle"
    /\ tpc' = [tpc EXCEPT !["ui"] = "lock"]
    /\ tResult' = [tResult EXCEPT !["ui"] = NoResult]
    /\ lastOp' = <<"invoke_toggle_auto_launch">>
    /\ UNCHANGED <<registrar, osEnabled, checkbox, lock, tRead, tPre, tQok, tlog>>
    /\ UNCHANGED <<exitVars, notifVars, mainVars>>

----------------------------------------------------------------------------
(* The tray menu handler. The platform runs one menu event at a time. *)

\* mutant: an id the handler does not know falls into the quit arm
on_menu_event_default_quit(id) ==
    /\ running
    /\ tpc["menu"] = "idle"
    /\ lastOp' = <<"on_menu_event", id>>
    /\ CASE id = "toggle_autostart" ->
              /\ tpc' = [tpc EXCEPT !["menu"] = "lock"]
              /\ tResult' = [tResult EXCEPT !["menu"] = NoResult]
              /\ UNCHANGED <<registrar, osEnabled, checkbox, lock, tRead,
                             tPre, tQok, tlog>>
              /\ UNCHANGED <<exitVars, notifVars, mainVars>>
         [] OTHER ->
              /\ Exit(ExitStatus)
              /\ UNCHANGED <<toggleVars, notifVars, mainVars>>

\* .on_menu_event(move |app, event| match event.id.as_ref() { ... })
on_menu_event(id) ==
    /\ running
    /\ tpc["menu"] = "idle"
    /\ lastOp' = <<"on_menu_event", id>>
    /\ CASE id = "toggle_autostart" ->
              /\ tpc' = [tpc EXCEPT !["menu"] = "lock"]
              /\ tResult' = [tResult EXCEPT !["menu"] = NoResult]
              /\ UNCHANGED <<registrar, osEnabled, checkbox, lock, tRead,
                             tPre, tQok, tlog>>
              /\ UNCHANGED <<exitVars, notifVars, mainVars>>
         [] id = "quit" ->
              /\ Exit(ExitStatus)
              /\ UNCHANGED <<toggleVars, notifVars, mainVars>>
         [] OTHER ->
              UNCHANGED <<exitVars, toggleVars, notifVars, mainVars>>

\* mutant: the check item is flipped instead of set to the returned state
on_menu_event_set_checked_flip ==
    /\ running
    /\ tpc["menu"] = "update"
    /\ IF IsOk(tResult["menu"])
       THEN \E setOk \in BOOLEAN :
              /\ checkbox' = IF setOk THEN ~checkbox ELSE checkbox
              /\ lastOp' = <<"on_menu_event_set_checked",
                             IF setOk THEN "set" ELSE "set_failed", checkbox>>
       ELSE /\ checkbox' = checkbox
            /\ lastOp' = <<"on_menu_event_set_checked", "skipped", checkbox>>
    /\ tpc' = [tpc EXCEPT !["menu"] = "idle"]
    /\ UNCHANGED <<registrar, osEnabled, lock, tRead, tResult, tPre, tQok, tlog>>
    /\ UNCHANGED <<exitVars, notifVars, mainVars>>

\* if let Ok(new_state) = toggle_auto_launch(..) { let _ = set_checked(new_state) }
\* lastOp keeps the outcome and the checked state before the step.
on_menu_event_set_checked ==
    /\ running
    /\ tpc["menu"] = "update"
    /\ IF IsOk(tResult["menu"])
       THEN \E setOk \in BOOLEAN :
              /\ checkbox' = IF setOk THEN tResult["menu"].val ELSE checkbox
              /\ lastOp' = <<"on_menu_event_set_checked",
                             IF setOk THEN "set" ELSE "set_failed", checkbox>>
       ELSE /\ checkbox' = checkbox
            /\ lastOp' = <<"on_menu_event_set_checked", "skipped", checkbox>>
    /\ tpc' = [tpc EXCEPT !["menu"] = "idle"]
    /\ UNCHANGED <<registrar, osEnabled, lock, tRead, tResult, tPre, tQok, tlog>>
    /\ UNCHANGED <<exitVars, notifVars, mainVars>>

----------------------------------------------------------------------------
(* The notification window. show_notification is an async command: it    *)
(* runs on a worker and its registry calls interleave with other calls.  *)

Window(id) == [id |-> id, delivered |-> FALSE, message |-> <<>>]

\* window.eval("window.__NOTIFICATION_MESSAGE__ = <json>")
Evaluated(win, json) ==
    [win EXCEPT !.delivered = TRUE, !.message = JsStringValue(json)]

\* the calls in flight other than w's overlap a command that starts now
Overlapped(w) ==
    [v \in Workers |-> IF v # w /\ spc[v] # "idle" THEN FALSE ELSE sAlone[v]]

\* the UI layer invokes the command show_notification with `message`
invoke_show_notification(w, message) ==
    /\ running
    /\ spc[w] = "idle"
    /\ nextSeq <= MaxShows
    /\ spc' = [spc EXCEPT ![w] = "get"]
    /\ sMsg' = [sMsg EXCEPT ![w] = message]
    /\ sId' = [sId EXCEPT ![w] = nextSeq]
    /\ nextSeq' = nextSeq + 1
    /\ sHandle' = [sHandle EXCEPT ![w] = 0]
    /\ sResult' = [sResult EXCEPT ![w] = NoResult]
    /\ sOpen' = [sOpen EXCEPT ![w] = (notif # {})]
    /\ sAlone' = [Overlapped(w) EXCEPT ![w] = \A v \in Workers \ {w} : spc[v] = "idle"]
    /\ sCloseOk' = [sCloseOk EXCEPT ![w] = TRUE]
    /\ lastOp' = <<"invoke_show_notification", w>>
    /\ UNCHANGED notif
    /\ UNCHANGED <<exitVars, toggleVars, mainVars>>

\* if let Some(window) = app.get_webview_window("notification")
show_notification_get(w) ==
    /\ running
    /\ spc[w] = "get"
    /\ IF notif # {}
       THEN /\ sHandle' = [sHandle EXCEPT ![w] = (CHOOSE x \in notif : TRUE).id]
            /\ spc' = [spc EXCEPT ![w] = "close"]
       ELSE /\ sHandle' = sHandle
            /\ spc' = [spc EXCEPT ![w] = "build"]
    /\ lastOp' = <<"show_notification_get", w>>
    /\ UNCHANGED <<notif, sMsg, sId, sResult, nextSeq, sOpen, sAlone, sCloseOk>>
    /\ UNCHANGED <<exitVars, toggleVars, mainVars>>

\* let _ = window.close();
show_notification_close(w) ==
    /\ running
    /\ spc[w] = "close"
    /\ LET target == {x \in notif : x.id = sHandle[w]} IN
       \E closeOk \in BOOLEAN :
          /\ notif' = IF closeOk THEN notif \ target ELSE notif
          /\ sCloseOk' = [sCloseOk EXCEPT ![w] = closeOk \/ target = {}]
    /\ spc' = [spc EXCEPT ![w] = "build"]
    /\ lastOp' = <<"show_notification_close", w>>
    /\ UNCHANGED <<sMsg, sId, sHandle, sResult, nextSeq, sOpen, sAlone>>
    /\ UNCHANGED <<exitVars, toggleVars, mainVars>>

\* mutant: the build error is dropped and the command goes on to eval
show_notification_build_go_on(w) ==
    /\ running
    /\ spc[w] = "build"
    /\ \E buildOk \in BOOLEAN :
          /\ notif' = IF buildOk /\ notif = {} THEN {Window(sId[w])} ELSE notif
          /\ spc' = [spc EXCEPT ![w] = "eval"]
          /\ sResult' = sResult
          /\ lastOp' = <<"show_notification_build", w>>
    /\ UNCHANGED <<sMsg, sId, sHandle, nextSeq, sOpen, sAlone, sCloseOk>>
    /\ UNCHANGED <<exitVars, toggleVars, mainVars>>

\* mutant: a failed build leaves its half-built window in the registry
show_notification_build_leak(w) ==
    /\ running
    /\ spc[w] = "build"
    /\ \E buildOk \in BOOLEAN :
          IF buildOk /\ notif = {}
          THEN /\ notif' = {Window(sId[w])}
               /\ spc' = [spc EXCEPT ![w] = "eval"]
               /\ sResult' = sResult
               /\ lastOp' = <<"show_notification_build", w>>
          ELSE /\ notif' = IF notif = {} THEN {Window(sId[w])} ELSE notif
               /\ spc' = [spc EXCEPT ![w] = "idle"]
               /\ sResult' = [sResult EXCEPT ![w] = Err(BuildError)]
               /\ lastOp' = <<"show_notification_err", w>>
    /\ UNCHANGED <<sMsg, sId, sHandle, nextSeq, sOpen, sAlone, sCloseOk>>
    /\ UNCHANGED <<exitVars, toggleVars, mainVars>>

\* WebviewWindowBuilder::new(&app, "notification", ..).build().map_err(..)?
\* The registry holds at most one window per label: build fails while the
\* label is taken.
show_notification_build(w) ==
    /\ running
    /\ spc[w] = "build"
    /\ \E buildOk \in BOOLEAN :
          IF buildOk /\ notif = {}
          THEN /\ notif' = {Window(sId[w])}
               /\ spc' = [spc EXCEPT ![w] = "eval"]
               /\ sResult' = sResult
               /\ lastOp' = <<"show_notification_build", w>>
          ELSE /\ notif' = notif
               /\ spc' = [spc EXCEPT ![w] = "idle"]
               /\ sResult' = [sResult EXCEPT ![w] = Err(BuildError)]
               /\ lastOp' = <<"show_notification_err", w>>
    /\ UNCHANGED <<sMsg, sId, sHandle, nextSeq, sOpen, sAlone, sCloseOk>>
    /\ UNCHANGED <<exitVars, toggleVars, mainVars>>

\* mutant: the message is spliced into the script without JSON encoding
show_notification_eval_raw(w) ==
    /\ running
    /\ spc[w] = "eval"
    /\ LET own == {x \in notif : x.id = sId[w]} IN
       \E evalOk \in BOOLEAN :
          /\ notif' = IF evalOk
                      THEN (notif \ own) \cup {Evaluated(x, sMsg[w]) : x \in own}
                      ELSE notif
          /\ lastOp' = <<"show_notification_ok", w,
                         IF evalOk /\ own # {} THEN "delivered" ELSE "eval_failed">>
    /\ spc' = [spc EXCEPT ![w] = "idle"]
    /\ sResult' = [sResult EXCEPT ![w] = Ok(Unit)]
    /\ UNCHANGED <<sMsg, sId, sHandle, nextSeq, sOpen, sAlone, sCloseOk>>
    /\ UNCHANGED <<exitVars, toggleVars, mainVars>>

\* let _ = window.eval(&format!(.., serde_json::to_string(&message).unwrap())); Ok(())
show_notification_eval(w) ==
    /\ running
    /\ spc[w] = "eval"
    /\ LET own == {x \in notif : x.id = sId[w]} IN
       \E evalOk \in BOOLEAN :
          /\ notif' = IF evalOk
                      THEN (notif \ own)
                           \cup {Evaluated(x, to_string(sMsg[w])) : x \in own}
                      ELSE notif
          /\ lastOp' = <<"show_notification_ok", w,
                         IF evalOk /\ own # {} THEN "delivered" ELSE "eval_failed">>
    /\ spc' = [spc EXCEPT ![w] = "idle"]
    /\ sResult' = [sResult EXCEPT ![w] = Ok(Unit)]
    /\ UNCHANGED <<sMsg, sId, sHandle, nextSeq, sOpen, sAlone, sCloseOk>>
    /\ UNCHANGED <<exitVars, toggleVars, mainVars>>

\* mutant: get_webview_window("notification").unwrap() panics when absent
close_notification_unwrap ==
    /\ running
    /\ IF notif # {}
       THEN \E closeOk \in BOOLEAN :
              /\ notif' = IF closeOk THEN {} ELSE notif
              /\ lastOp' = <<"close_notification",
                             IF closeOk THEN "closed" ELSE "close_failed">>
              /\ UNCHANGED exitVars
       ELSE /\ notif' = notif
            /\ lastOp' = <<"close_notification", "absent">>
            /\ Exit(101)
    /\ sAlone' = [v \in Workers |-> IF spc[v] # "idle" THEN FALSE ELSE sAlone[v]]
    /\ UNCHANGED <<spc, sMsg, sId, sHandle, sResult, nextSeq, sOpen, sCloseOk>>
    /\ UNCHANGED <<toggleVars, mainVars>>

\* #[tauri::command] fn close_notification
close_notification ==
    /\ running
    /\ IF notif # {}
       THEN \E closeOk \in BOOLEAN :
              /\ notif' = IF closeOk THEN {} ELSE notif
              /\ lastOp' = <<"close_notification",
                             IF closeOk THEN "closed" ELSE "close_failed">>
       ELSE /\ notif' = notif
            /\ lastOp' = <<"close_notification", "absent">>
    /\ sAlone' = [v \in Workers |-> IF spc[v] # "idle" THEN FALSE ELSE sAlone[v]]
    /\ UNCHANGED <<spc, sMsg, sId, sHandle, sResult, nextSeq, sOpen, sCloseOk>>
    /\ UNCHANGED <<exitVars, toggleVars, mainVars>>

----------------------------------------------------------------------------
(* The tray icon handler: a left-button release toggles the main window. *)

\* mutant: a failed visibility query is taken as "visible" and hides
on_tray_icon_event_hides(button, buttonState) ==
    /\ running
    /\ tpc["menu"] = "idle"
    /\ IF button = "Left" /\ buttonState = "Up"
       THEN IF mainExists
            THEN \E queryOk \in BOOLEAN :
                   IF ~queryOk \/ mainVisible
                   THEN \E hideOk \in BOOLEAN :
                          /\ mainVisible' = (mainVisible /\ ~hideOk)
                          /\ mainFocused' = mainFocused
                          /\ lastOp' = <<"on_tray_icon_event",
                                         IF queryOk THEN "visible" ELSE "query_failed",
                                         mainVisible, <<"hide", hideOk>>>>
                   ELSE \E showOk, focusOk \in BOOLEAN :
                          /\ mainVisible' = (mainVisible \/ showOk)
                          /\ mainFocused' = (mainFocused \/ focusOk)
                          /\ lastOp' = <<"on_tray_icon_event",
                                         IF queryOk THEN "hidden" ELSE "query_failed",
                                         mainVisible, <<"show", showOk>>,
                                         <<"set_focus", focusOk>>>>
            ELSE /\ UNCHANGED <<mainVisible, mainFocused>>
                 /\ lastOp' = <<"on_tray_icon_event", "no_window">>
       ELSE /\ UNCHANGED <<mainVisible, mainFocused>>
            /\ lastOp' = <<"on_tray_icon_event", "ignored">>
    /\ UNCHANGED mainExists
    /\ UNCHANGED <<exitVars, toggleVars, notifVars>>

\* mutant: the window is shown without being given the focus
on_tray_icon_event_no_focus(button, buttonState) ==
    /\ running
    /\ tpc["menu"] = "idle"
    /\ IF button = "Left" /\ buttonState = "Up"
       THEN IF mainExists
            THEN \E queryOk \in BOOLEAN :
                   IF queryOk /\ mainVisible
                   THEN \E hideOk \in BOOLEAN :
                          /\ mainVisible' = (mainVisible /\ ~hideOk)
                          /\ mainFocused' = mainFocused
                          /\ lastOp' = <<"on_tray_icon_event",
                                         "visible",
                                         mainVisible, <<"hide", hideOk>>>>
                   ELSE \E showOk, focusOk \in BOOLEAN :
                          /\ mainVisible' = (mainVisible \/ showOk)
                          /\ mainFocused' = mainFocused
                          /\ lastOp' = <<"on_tray_icon_event",
                                         IF queryOk THEN "hidden" ELSE "query_failed",
                                         mainVisible, <<"show", showOk>>,
                                         <<"none", focusOk>>>>
            ELSE /\ UNCHANGED <<mainVisible, mainFocused>>
                 /\ lastOp' = <<"on_tray_icon_event", "no_window">>
       ELSE /\ UNCHANGED <<mainVisible, mainFocused>>
            /\ lastOp' = <<"on_tray_icon_event", "ignored">>
    /\ UNCHANGED mainExists
    /\ UNCHANGED <<exitVars, toggleVars, notifVars>>

\* .on_tray_icon_event(|tray_handle, event| match event { ... })
\* The platform runs tray and menu events one at a time, so the handler
\* starts only when the menu handler is not in the middle of an event.
\* mainFocused changes only by this handler's set_focus. lastOp keeps what
\* the handler saw ("ignored", "no_window", "query_failed", "visible",
\* "hidden"), the visibility before, and the calls it made with their
\* outcome.
on_tray_icon_event(button, buttonState) ==
    /\ running
    /\ tpc["menu"] = "idle"
    /\ IF button = "Left" /\ buttonState = "Up"
       THEN IF mainExists
            THEN \E queryOk \in BOOLEAN :
                   IF queryOk /\ mainVisible
                   THEN \E hideOk \in BOOLEAN :
                          /\ mainVisible' = (mainVisible /\ ~hideOk)
                          /\ mainFocused' = mainFocused
                          /\ lastOp' = <<"on_tray_icon_event",
                                         "visible",
                                         mainVisible, <<"hide", hideOk>>>>
                   ELSE \E showOk, focusOk \in BOOLEAN :
                          /\ mainVisible' = (mainVisible \/ showOk)
                          /\ mainFocused' = (mainFocused \/ focusOk)
                          /\ lastOp' = <<"on_tray_icon_event",
                                         IF queryOk THEN "hidden" ELSE "query_failed",
                                         mainVisible, <<"show", showOk>>,
                                         <<"set_focus", focusOk>>>>
            ELSE /\ UNCHANGED <<mainVisible, mainFocused>>
                 /\ lastOp' = <<"on_tray_icon_event", "no_window">>
       ELSE /\ UNCHANGED <<mainVisible, mainFocused>>
            /\ lastOp' = <<"on_tray_icon_event", "ignored">>
    /\ UNCHANGED mainExists
    /\ UNCHANGED <<exitVars, toggleVars, notifVars>>

----------------------------------------------------------------------------
NextShell ==
    \/ \E c \in Callers : toggle_auto_launch_lock(c)
    \/ \E c \in Callers : toggle_auto_launch_is_enabled(c)
    \/ \E c \in Callers : toggle_auto_launch_flip(c)
    \/ \E c \in Callers : toggle_auto_launch_return(c)
    \/ invoke_toggle_auto_launch
    \/ \E id \in MenuIds : on_menu_event(id)
    \/ on_menu_event_set_checked
    \/ \E b \in Buttons, bs \in ButtonStates : on_tray_icon_event(b, bs)
    \/ exit_app

NextNotif ==
    \/ \E w \in Workers, m \in Messages : invoke_show_notification(w, m)
    \/ \E w \in Workers : show_notification_get(w)
    \/ \E w \in Workers : show_notification_close(w)
    \/ \E w \in Workers : show_notification_build(w)
    \/ \E w \in Workers : show_notification_eval(w)
    \/ close_notification
    \/ exit_app

Next == NextShell \/ NextNotif

\* the tray, its menu and the auto-launch registrar
SpecShell == Init /\ [][NextShell]_vars

\* Scheduling: a toggle that can take its next step takes it; a toggle
\* waiting for the mutex gets it if the mutex is free again and again.
ToggleFairness ==
    \A c \in Callers :
       /\ SF_vars(toggle_auto_launch_lock(c))
       /\ WF_vars(toggle_auto_launch_is_enabled(c))
       /\ WF_vars(toggle_auto_launch_flip(c))
       /\ WF_vars(toggle_auto_launch_return(c))

\* the toggles and the menu handler alone, under that scheduling; the tray
\* click handler reads and writes nothing of a toggle, so the main window
\* starts in one representative state and stays there
InitToggle ==
    /\ Init
    /\ mainExists /\ mainVisible /\ ~mainFocused

NextToggle ==
    \/ \E c \in Callers : toggle_auto_launch_lock(c)
    \/ \E c \in Callers : toggle_auto_launch_is_enabled(c)
    \/ \E c \in Callers : toggle_auto_launch_flip(c)
    \/ \E c \in Callers : toggle_auto_launch_return(c)
    \/ invoke_toggle_auto_launch
    \/ \E id \in MenuIds : on_menu_event(id)
    \/ on_menu_event_set_checked
    \/ exit_app

SpecToggleFair == InitToggle /\ [][NextToggle]_vars /\ ToggleFairness

\* the notification window commands, which read nothing of the shell: it
\* starts in one representative state
InitNotif ==
    /\ Init
    /\ registrar /\ ~osEnabled /\ ~checkbox
    /\ mainExists /\ mainVisible /\ ~mainFocused

SpecNotif == InitNotif /\ [][NextNotif]_vars

Spec == Init /\ [][Next]_vars

----------------------------------------------------------------------------
(* Claims about the notification window, checked under SpecNotif. *)

Returned(w)   == lastOp[1] \in {"show_notification_ok", "show_notification_err"}
                 /\ lastOp[2] = w
ReturnedOk(w) == lastOp[1] = "show_notification_ok" /\ lastOp[2] = w
ReturnedErr(w) == lastOp[1] = "show_notification_err" /\ lastOp[2] = w

\* C1 as stated: a show_notification(m) issued while a notification window
\* is open leaves, once it has returned, exactly one notification window,
\* and that window carries m. (Stated for a call that no other notification
\* command overlaps.)
C1_SingleFlight_Stated ==
    \A w \in Workers :
        (Returned(w) /\ sOpen[w] /\ sAlone[w]) =>
            /\ Cardinality(notif) = 1
            /\ \A x \in notif : x.delivered /\ x.message = sMsg[w]

\* C1 amended: a show_notification(m) issued while a notification window is
\* open, overlapped by no other notification command and returning Ok,
\* leaves exactly one notification window; it is the window this call built
\* (never the one it replaced), it carries m when the payload delivery
\* succeeded and no message when the delivery failed.
C1_SingleFlight ==
    \A w \in Workers :
        (ReturnedOk(w) /\ sOpen[w] /\ sAlone[w]) =>
            /\ Cardinality(notif) = 1
            /\ \A x \in notif :
                  /\ x.id = sId[w]
                  /\ x.delivered = (lastOp[3] = "delivered")
                  /\ x.message = IF x.delivered THEN sMsg[w] ELSE <<>>

\* C1 witness: a window was open, the call replaced it and delivered a
\* message that needs escaping.
C1_Witness ==
    \E w \in Workers :
        /\ ReturnedOk(w) /\ sOpen[w] /\ sAlone[w]
        /\ sMsg[w] = <<BSLASH, QUOTE>>
        /\ notif = {[id |-> sId[w], delivered |-> TRUE, message |-> sMsg[w]]}

\* C8 as stated: after a show_notification that returned an error the
\* registry holds no notification window.
C8_FailedShow_Stated ==
    \A w \in Workers : ReturnedErr(w) => notif = {}

\* C8 amended: a show_notification that returned an error has left no window
\* of its own in the registry; when its best-effort close of the window that
\* was open did not fail and no other notification command overlapped it,
\* the registry holds no notification window at all.
C8_FailedShow ==
    \A w \in Workers :
        ReturnedErr(w) =>
            /\ \A x \in notif : x.id # sId[w]
            /\ (sCloseOk[w] /\ sAlone[w]) => notif = {}

\* C8 witness: a window was open, the call closed it and then failed to build.
C8_Witness ==
    \E w \in Workers :
        /\ ReturnedErr(w) /\ sOpen[w] /\ sCloseOk[w] /\ sAlone[w]
        /\ sResult[w] = Err(BuildError)
        /\ notif = {}

\* C10 as stated: after close_notification there is no notification window.
C10_Close_Stated ==
    lastOp[1] = "close_notification" => notif = {}

\* C10 amended: close_notification never fails and reports nothing; with no
\* notification window it is a no-op that leaves zero windows; with one it
\* leaves zero windows when the underlying close succeeds, and a failed
\* close is swallowed and leaves that window in place. It changes nothing
\* else: no call in flight, no result, the shell and the process state.
C10_Close ==
    [][ lastOp'[1] = "close_notification" =>
          /\ notif = {} => (notif' = {} /\ lastOp'[2] = "absent")
          /\ notif # {} => lastOp'[2] \in {"closed", "close_failed"}
          /\ lastOp'[2] = "closed" => notif' = {}
          /\ lastOp'[2] = "close_failed" => notif' = notif
          /\ UNCHANGED <<spc, sMsg, sId, sHandle, sResult, nextSeq>>
          /\ UNCHANGED <<exitVars, toggleVars, mainVars>>
      ]_vars

\* C10 witness: close_notification ran with no notification window, after an
\* earlier window had come and gone.
C10_Witness ==
    /\ lastOp = <<"close_notification", "absent">>
    /\ notif = {}
    /\ nextSeq > 1
    /\ running

----------------------------------------------------------------------------
(* Claims about the registrar, the menu and quit, checked under SpecShell. *)

InCritical(c) == tpc[c] \in {"held", "queried", "unlock"}
Quiet         == \A c \in Callers : tpc[c] = "idle"
LastToggle    == tlog[Len(tlog)]
Succeeded(r)  == IsOk(r.res)

\* C2: with OS calls that succeed, a toggle from enabled=false returns true
\* and leaves the registration enabled, and the next one returns false and
\* leaves it disabled; the boolean any successful toggle returns is the
\* registration after the call; two successive toggles whose OS calls all
\* succeed restore the registration the first one found.
C2_Toggle ==
    /\ \A i \in 1..Len(tlog) :
          LET r == tlog[i] IN
          /\ Succeeded(r) => r.res.val = r.post
          /\ (Succeeded(r) /\ r.qok) => r.res.val = ~r.read
          /\ (Succeeded(r) /\ r.qok /\ ~r.read) => (r.res = Ok(TRUE) /\ r.post)
    /\ (tlog # <<>> /\ \A c \in Callers : tpc[c] # "unlock") =>
          osEnabled = LastToggle.post
    /\ (Len(tlog) = 2 /\ Succeeded(tlog[1]) /\ tlog[1].qok
                      /\ Succeeded(tlog[2]) /\ tlog[2].qok) =>
          /\ tlog[2].post = tlog[1].read
          /\ ~tlog[1].read => (tlog[1].res = Ok(TRUE) /\ tlog[2].res = Ok(FALSE))

\* C2 witness: from disabled, a toggle returned true and the next returned
\* false, and the registration is disabled again.
C2_Witness ==
    /\ Len(tlog) = 2
    /\ tlog[1].qok /\ ~tlog[1].read /\ tlog[1].res = Ok(TRUE) /\ tlog[1].post
    /\ tlog[2].qok /\ tlog[2].read /\ tlog[2].res = Ok(FALSE)
    /\ Quiet /\ ~osEnabled

\* C3 as stated: two concurrent toggles (the second was waiting for the lock
\* when the first returned) never both succeed having read the same state.
C3_Mutex_Stated ==
    (/\ Len(tlog) = 2
     /\ tlog[1].conc /\ tlog[1].caller # tlog[2].caller
     /\ Succeeded(tlog[1]) /\ Succeeded(tlog[2])) =>
        tlog[1].read # tlog[2].read

\* C3 amended: the read-then-flip sequences of two toggles never overlap (at
\* most one caller is between lock and return, and it holds the mutex); a
\* toggle whose is-enabled query succeeds reads the registration the toggle
\* before it left, so two toggles whose queries succeed never both succeed
\* having read the same state. (A failed query reads "disabled" whatever the
\* first toggle left.)
C3_Mutex ==
    /\ Cardinality({c \in Callers : InCritical(c)}) <= 1
    /\ \A c \in Callers : InCritical(c) <=> lock = c
    /\ \A c \in Callers : (tpc[c] \in {"queried", "unlock"} /\ tQok[c] /\ tlog # <<>>) =>
          tPre[c] = LastToggle.post
    /\ (Len(tlog) = 2 /\ tlog[2].qok) => tlog[2].read = tlog[1].post
    /\ (Len(tlog) = 2 /\ Succeeded(tlog[1]) /\ Succeeded(tlog[2])
                      /\ tlog[1].qok /\ tlog[2].qok) =>
          tlog[1].read # tlog[2].read

\* C3 witness: the menu's and the UI's toggles were in flight together, both
\* succeeded, and the second read what the first had written.
C3_Witness ==
    /\ Len(tlog) = 2
    /\ tlog[1].conc /\ tlog[1].caller # tlog[2].caller
    /\ Succeeded(tlog[1]) /\ Succeeded(tlog[2])
    /\ tlog[1].qok /\ tlog[2].qok
    /\ tlog[2].read = tlog[1].post /\ tlog[1].read # tlog[2].read

MenuToggleDone == lastOp[1] = "on_menu_event_set_checked"

\* C4 as stated: after the menu item toggle_autostart has been handled, the
\* check item equals the returned boolean if the toggle succeeded and is
\* what it was before if the toggle failed.
C4_Checkbox_Stated ==
    MenuToggleDone =>
        IF IsOk(tResult["menu"])
        THEN checkbox = tResult["menu"].val
        ELSE checkbox = lastOp[3]

\* C4 amended: after the menu item toggle_autostart has been handled, the
\* check item equals the returned boolean if the toggle succeeded and
\* set_checked succeeded; it is what it was before if the toggle failed or
\* if set_checked failed (that failure is discarded).
C4_Checkbox ==
    MenuToggleDone =>
        /\ IsOk(tResult["menu"]) <=> lastOp[2] \in {"set", "set_failed"}
        /\ lastOp[2] = "set" => checkbox = tResult["menu"].val
        /\ lastOp[2] # "set" => checkbox = lastOp[3]

\* C4 witness: a successful menu toggle changed the check item to the
\* boolean it returned.
C4_Witness ==
    /\ MenuToggleDone /\ lastOp[2] = "set"
    /\ IsOk(tResult["menu"])
    /\ checkbox = tResult["menu"].val
    /\ checkbox # lastOp[3]

\* C5: once the toggles have returned and the last one succeeded, whichever
\* path performed it, the check item equals the OS registration.
C5_CheckboxTracksOs ==
    (Quiet /\ tlog # <<>> /\ Succeeded(LastToggle)) => checkbox = osEnabled

\* C6: with the registrar absent every toggle returns the error "AutoLaunch
\* not initialized" (never Ok), no step queries or flips the OS registration,
\* the registration and the check item do not change, and the process keeps
\* running unless quit is asked for.
C6_NotInitialized ==
    [][ ~registrar =>
          /\ osEnabled' = osEnabled
          /\ checkbox' = checkbox
          /\ \A c \in Callers :
                /\ tpc'[c] # "queried"
                /\ tResult'[c] \in {NoResult, Err(NotInitialized)}
                /\ tpc'[c] = "unlock" => tResult'[c] = Err(NotInitialized)
          /\ \A i \in 1..Len(tlog') : tlog'[i].res = Err(NotInitialized)
          /\ running' = running
             \/ lastOp' \in {<<"exit_app">>, <<"on_menu_event", "quit">>}
      ]_vars

\* C6 witness: both paths have toggled with the registrar absent and the
\* menu handler has finished.
C6_Witness ==
    /\ ~registrar /\ running
    /\ Len(tlog) = 2 /\ tlog[1].caller # tlog[2].caller
    /\ LastToggle.res = Err(NotInitialized)
    /\ lastOp = <<"on_menu_event_set_checked", "skipped", checkbox>>

\* C7: a toggle that returns an error has left the OS registration as it was
\* when the toggle took the lock, and the menu handler leaves the check item
\* as it was: the check item changes only in the handler's update after a
\* toggle that returned Ok.
C7_FailedToggle ==
    /\ [](\A c \in Callers :
            (tpc[c] = "unlock" /\ IsErr(tResult[c])) => osEnabled = tPre[c])
    /\ [][ /\ (lastOp'[1] = "on_menu_event_set_checked" /\ IsErr(tResult["menu"]))
                => checkbox' = checkbox
           /\ checkbox' # checkbox
                => (lastOp'[1] = "on_menu_event_set_checked" /\ IsOk(tResult["menu"]))
           /\ osEnabled' # osEnabled
                => \E c \in Callers : tpc[c] = "queried" /\ IsOk(tResult'[c])
       ]_vars

\* C7 witness: the menu's toggle failed in the OS call on an enabled
\* registration; registration and check item are as before.
C7_Witness ==
    /\ lastOp = <<"on_menu_event_set_checked", "skipped", checkbox>>
    /\ tResult["menu"] = Err(OsError)
    /\ LastToggle.caller = "menu" /\ LastToggle.qok /\ LastToggle.read
    /\ osEnabled /\ LastToggle.post

----------------------------------------------------------------------------
\* Tray clicks and unrecognised events.

TrayStep(kind) == lastOp'[1] = "on_tray_icon_event" /\ lastOp'[2] = kind
TraySaw(kind)  == lastOp[1] = "on_tray_icon_event" /\ lastOp[2] = kind

\* C11 as stated: after a left-button release whose visibility query failed
\* the main window is shown and has the focus.
C11_QueryFailed_Stated ==
    TraySaw("query_failed") => mainVisible /\ mainFocused

\* C11: on a left-button release whose visibility query fails the handler
\* calls show and set_focus and never hide: a visible window stays visible
\* and a focused one focused; the window is visible afterwards when show
\* succeeded and focused when set_focus succeeded, the outcome of both
\* calls being discarded.
C11_QueryFailed ==
    [][TrayStep("query_failed") =>
          /\ lastOp'[4][1] = "show"
          /\ Len(lastOp') = 5 /\ lastOp'[5][1] = "set_focus"
          /\ mainVisible' = (mainVisible \/ lastOp'[4][2])
          /\ mainFocused' = (mainFocused \/ lastOp'[5][2])
       ]_vars

\* C11 witness: the query failed on a hidden, unfocused window; show and
\* set_focus succeeded and the window is visible and focused.
C11_Witness ==
    /\ lastOp = <<"on_tray_icon_event", "query_failed", FALSE,
                  <<"show", TRUE>>, <<"set_focus", TRUE>>>>
    /\ mainVisible /\ mainFocused

----------------------------------------------------------------------------
\* Overlapping notification commands.

AllReturned == \A w \in Workers : spc[w] = "idle"
IssuedLast(w) == sId[w] = nextSeq - 1

\* C12: there is never more than one notification window; and once every
\* call has returned, the show request issued last having returned Ok and
\* every close of an old window having succeeded, the window present (if
\* any), when a message was delivered to it, is the one built for the
\* request issued last and carries that request's message.
C12_NewestWins ==
    /\ Cardinality(notif) <= 1
    /\ (/\ AllReturned
        /\ \A w \in Workers : sCloseOk[w]
        /\ \E w \in Workers : IssuedLast(w) /\ IsOk(sResult[w]))
       => \A x \in notif : \A w \in Workers :
             (IssuedLast(w) /\ x.delivered) =>
                /\ x.id = sId[w]
                /\ x.message = sMsg[w]

----------------------------------------------------------------------------
\* The scope of the registrar lock.

ToggleOps == {"toggle_auto_launch_lock", "toggle_auto_launch_is_enabled",
              "toggle_auto_launch_flip", "toggle_auto_launch_return"}
HandlerOps == {"on_menu_event", "on_menu_event_set_checked",
               "on_tray_icon_event"}

\* C13: the lock is held only by a toggle between its lock and its return;
\* the steps a holder takes are the read and the flip of the registration
\* and the return, none of which touches the check item, a window or the
\* process; every event-handler step (check item update, main window
\* show/hide/focus, quit) is taken while the handler does not hold the
\* lock, and the check item changes only in the handler's update step,
\* after its toggle has returned and released the lock.
C13_LockScope ==
    [][/\ \A c \in Callers : lock = c => InCritical(c)
       /\ \A c \in Callers :
             (lock = c /\ lastOp'[1] \in ToggleOps /\ lastOp'[2] = c)
                => /\ lastOp'[1] # "toggle_auto_launch_lock"
                   /\ UNCHANGED <<checkbox, notif, mainVars, exitVars>>
       /\ lastOp'[1] \in HandlerOps
             => lock # "menu" /\ lock' # "menu" /\ ~InCritical("menu")
       /\ checkbox' # checkbox
             => /\ lastOp'[1] = "on_menu_event_set_checked"
                /\ tpc["menu"] = "update" /\ lock # "menu"
       ]_vars

\* C13 witness: the menu's toggle has returned and released the lock, and
\* the handler then changed the check item with the lock free.
C13_Witness ==
    /\ lastOp[1] = "on_menu_event_set_checked" /\ lastOp[2] = "set"
    /\ checkbox # lastOp[3]
    /\ lock = "none" /\ LastToggle.caller = "menu"

\* a left-button release whose query succeeded and whose hide or show
\* succeeded, as recorded in lastOp
Flipped(op) ==
    /\ op[1] = "on_tray_icon_event"
    /\ op[2] \in {"visible", "hidden"}
    /\ op[4][2]

\* C14 as stated: after a left-button release whose query succeeded a
\* window that was visible is hidden, and one that was hidden is visible
\* and focused.
C14_Flip_Stated ==
    /\ TraySaw("visible") => ~mainVisible
    /\ TraySaw("hidden") => mainVisible /\ mainFocused

\* C14: with a successful query on an existing main window, a left-button
\* release on a visible window calls hide and nothing else (the window is
\* hidden when hide succeeded, the focus is not touched), and on a hidden
\* window calls show and set_focus (the window is visible when show
\* succeeded and focused when set_focus succeeded); two consecutive clicks
\* whose query and hide/show succeeded restore the visibility the first
\* one found; and a hidden window can be made visible by one click.
C14_Flip ==
    [][/\ TrayStep("visible") =>
             /\ mainExists /\ mainVisible /\ lastOp'[3]
             /\ Len(lastOp') = 4 /\ lastOp'[4][1] = "hide"
             /\ mainVisible' = ~lastOp'[4][2]
             /\ mainFocused' = mainFocused
       /\ TrayStep("hidden") =>
             /\ mainExists /\ ~mainVisible /\ ~lastOp'[3]
             /\ Len(lastOp') = 5
             /\ lastOp'[4][1] = "show" /\ lastOp'[5][1] = "set_focus"
             /\ mainVisible' = lastOp'[4][2]
             /\ mainFocused' = (mainFocused \/ lastOp'[5][2])
       /\ (Flipped(lastOp) /\ Flipped(lastOp')) => mainVisible' = lastOp[3]
       /\ (running /\ tpc["menu"] = "idle" /\ mainExists /\ ~mainVisible)
             => ENABLED (on_tray_icon_event("Left", "Up") /\ mainVisible')
       ]_vars

\* C14 witness: a click found the window hidden, its query, show and
\* set_focus succeeded, and the window is visible and focused.
C14_Witness ==
    /\ lastOp = <<"on_tray_icon_event", "hidden", FALSE,
                  <<"show", TRUE>>, <<"set_focus", TRUE>>>>
    /\ mainVisible /\ mainFocused

----------------------------------------------------------------------------
\* Construction before delivery.

\* C15: a show_notification call reaches the payload delivery only from a
\* build that has just put its window in the registry; a failed build
\* returns the error at once, leaving the registry as it was, without a
\* delivery; a message appears in a window only by the delivery step of
\* the call that built it; and the call that reached the delivery returns
\* Ok whether the delivery succeeded or failed.
C15_DeliveryAfterBuild ==
    [][/\ \A w \in Workers :
             /\ (spc[w] # "eval" /\ spc'[w] = "eval")
                   => /\ spc[w] = "build"
                      /\ Window(sId[w]) \in notif' \ notif
                      /\ sResult'[w] = NoResult
             /\ (spc[w] = "build" /\ spc'[w] # "eval" /\ spc'[w] # "build")
                   => /\ spc'[w] = "idle"
                      /\ sResult'[w] = Err(BuildError)
                      /\ lastOp' = <<"show_notification_err", w>>
                      /\ notif' = notif
             /\ (spc[w] = "eval" /\ spc'[w] # "eval")
                   => /\ spc'[w] = "idle"
                      /\ sResult'[w] = Ok(Unit)
                      /\ lastOp'[1] = "show_notification_ok"
                      /\ lastOp'[2] = w
                      /\ lastOp'[3] \in {"delivered", "eval_failed"}
             /\ IsErr(sResult[w]) => \A x \in notif : x.id # sId[w]
       /\ \A x \in notif' \ notif :
             x.delivered
                => /\ lastOp'[1] = "show_notification_ok"
                   /\ lastOp'[3] = "delivered"
                   /\ spc[lastOp'[2]] = "eval"
                   /\ x.id = sId[lastOp'[2]]
       ]_vars

\* C15 witness: the window was built, the delivery failed, and the call
\* has returned Ok with its window open and without a message.
C15_Witness ==
    /\ lastOp = <<"show_notification_ok", "w1", "eval_failed">>
    /\ sResult["w1"] = Ok(Unit)
    /\ notif = {Window(sId["w1"])}

----------------------------------------------------------------------------
\* Events the handlers do not recognise.

Unrecognised(op) ==
    \/ op = <<"on_tray_icon_event", "ignored">>
    \/ op[1] = "on_menu_event" /\ op[2] \notin {"toggle_autostart", "quit"}

\* C16: a tray event other than a left-button release and a menu event
\* whose id is neither toggle_autostart nor quit change nothing: the main
\* window's visibility and focus, the notification window, the check item,
\* the OS registration, the registrar lock, the toggles in flight and the
\* process are as before.
C16_NoOp ==
    [][Unrecognised(lastOp') =>
          /\ UNCHANGED <<mainVars, notifVars, exitVars>>
          /\ UNCHANGED <<registrar, osEnabled, checkbox, lock, tpc, tRead,
                         tResult>>
       ]_vars

\* C16 witness: a tray event that is not a left-button release arrived
\* while the main window was hidden and the UI's toggle held the lock.
C16_Witness ==
    /\ lastOp = <<"on_tray_icon_event", "ignored">>
    /\ mainExists /\ ~mainVisible
    /\ lock = "ui" /\ tpc["ui"] = "queried"

----------------------------------------------------------------------------
\* A failing is-enabled query.

\* C17: a failed is-enabled query counts as "not enabled" and is not an
\* error. At startup it leaves the check item unchecked and the process
\* running. In a toggle with the registrar present the query step never
\* sets a result: it goes on to the flip with "not enabled" when the query
\* failed, the flip is then the enable call, and the toggle returns
\* Ok(true) with the registration enabled, or the error of the enable
\* call with the registration unchanged.
C17_QueryFailure ==
    [][/\ (lastOp[1] = "setup" /\ lastOp[2] = "query_failed")
             => registrar /\ ~checkbox /\ running
       /\ \A c \in Callers :
             /\ (registrar /\ tpc[c] = "held" /\ tpc'[c] # "held")
                   => /\ tpc'[c] = "queried"
                      /\ tResult'[c] = NoResult
                      /\ ~tQok'[c] => ~tRead'[c]
             /\ (tpc[c] = "queried" /\ ~tQok[c] /\ tpc'[c] # "queried")
                   => \/ tResult'[c] = Ok(TRUE) /\ osEnabled'
                      \/ tResult'[c] = Err(OsError) /\ osEnabled' = osEnabled
       /\ \A i \in 1..Len(tlog) :
             (registrar /\ ~tlog[i].qok)
                => /\ ~tlog[i].read
                   /\ tlog[i].res \in {Ok(TRUE), Err(OsError)}
       ]_vars

\* C17 witness: the menu's toggle could not query the registration, took
\* the enable branch and returned Ok(true); the registration is enabled and
\* the check item has been set to checked.
C17_Witness ==
    /\ registrar /\ tlog # <<>>
    /\ LastToggle.caller = "menu" /\ ~LastToggle.qok /\ ~LastToggle.conc
    /\ LastToggle.res = Ok(TRUE) /\ osEnabled
    /\ lastOp[1] = "on_menu_event_set_checked" /\ lastOp[2] = "set"
    /\ checkbox

----------------------------------------------------------------------------
\* Toggles return.

InCall(c) == tpc[c] \in {"lock", "held", "queried", "unlock"}

----------------------------------------------------------------------------
\* The check item at startup.

AtStartup == lastOp[1] = "setup"

\* C19: in the state setup leaves, the check item is checked exactly when
\* the OS registration is enabled if the registrar was built and the
\* is-enabled query succeeded, and unchecked if the registrar is absent;
\* no toggle is in flight and the lock is free.
C19_InitialCheckbox ==
    AtStartup =>
       /\ lastOp[2] = "query_ok" => registrar /\ checkbox = osEnabled
       /\ lastOp[2] = "absent" => ~registrar /\ ~checkbox
       /\ ~registrar => lastOp[2] = "absent"
       /\ Quiet /\ lock = "none" /\ tlog = <<>>

\* C19 witness: startup with a working registrar and the registration
\* enabled: the check item starts checked.
C19_Witness ==
    /\ lastOp = <<"setup", "query_ok">>
    /\ registrar /\ osEnabled /\ checkbox

====
